---- MODULE Spec2Model ----
(***************************************************************************)
(* The discharge-meeting conversation controller (hook useDischargeMeeting *)
(* and the DischargeMeeting component that drives it).                     *)
(*                                                                         *)
(* JavaScript is single-threaded: the code between two awaits runs         *)
(* atomically, so every action below is one such segment (an event         *)
(* handler, a fetch continuation, a timer callback, an audio listener      *)
(* together with the continuation its resolve() releases).  React state    *)
(* is committed, and the ref-mirroring effects are run, at the end of      *)
(* each segment.  A callback created during a render keeps that render's   *)
(* values of planSteps and isAdvancing (its closure); callbacks read the   *)
(* refs live.                                                              *)
(***************************************************************************)
EXTENDS Integers, Sequences, FiniteSets, TLC

(* ------------------------------ bounds -------------------------------- *)
(* user inputs (Start, End, patient messages) recorded in the transcript *)
MaxInputs == 2
(* calls of the hook's actions by a caller other than the component *)
MaxApiCalls == 2
MaxPlanLen == 3
(* bot messages in the transcript when the extraction is examined on its own *)
MaxAsked == 4
(* recognizer restarts of the patient tab armed at the same time *)
MaxRestarts == 2

(* ------------------------------ texts --------------------------------- *)
(* A text is a sequence of one-character strings.                          *)
Text ==
  [ u_yes     |-> <<"Y","e","s",","," ","I"," ","h","a","v","e"," ","t","h","e","m"," ","a","l","l">>,
    u_avail   |-> <<"T","u","e","s","d","a","y"," ","a","n","d"," ","W","e","d","n","e","s","d","a","y"," ","m","o","r","n","i","n","g","s"," ","w","o","r","k"," ","b","e","s","t">>,
    u_hm      |-> <<"H","m","m">>,
    t_ok      |-> <<"O","k">>,
    s_meds    |-> <<"D","o"," ","y","o","u"," ","h","a","v","e"," ","y","o","u","r"," ","m","e","d","i","c","a","t","i","o","n","s","?">>,
    s_when    |-> <<"W","h","a","t"," ","d","a","y","s"," ","w","o","r","k"," ","f","o","r"," ","y","o","u","r"," ","f","o","l","l","o","w","-","u","p","?">>,
    s_welcome |-> <<"W","e","l","c","o","m","e","."," ">>,
    s_ready   |-> <<"R","e","a","d","y","?"," ">>,
    s_pain    |-> <<" ","A","n","y"," ","p","a","i","n","?">>,
    r_ok_q    |-> <<"O","k","a","y","?">>,
    r_ok      |-> <<"O","k","a","y",".">>,
    empty     |-> <<>> ]

NameOf(chars) == CHOOSE n \in DOMAIN Text : Text[n] = chars

Upper == <<"A","B","C","D","E","F","G","H","I","J","K","L","M","N","O","P","Q","R","S","T","U","V","W","X","Y","Z">>
Lower == <<"a","b","c","d","e","f","g","h","i","j","k","l","m","n","o","p","q","r","s","t","u","v","w","x","y","z">>

LowerChar(c) ==
  IF \E i \in 1..26 : Upper[i] = c
  THEN Lower[CHOOSE i \in 1..26 : Upper[i] = c]
  ELSE c

toLowerCase(s) == [i \in 1..Len(s) |-> LowerChar(s[i])]

includes(s, sub) ==
  \E i \in 0..(Len(s) - Len(sub)) : \A j \in 1..Len(sub) : s[i + j] = sub[j]

endsWith(s, c) == Len(s) > 0 /\ s[Len(s)] = c

IsSpace(c) == c = " "

RECURSIVE trimEnd(_)
trimEnd(s) ==
  IF Len(s) > 0 /\ IsSpace(s[Len(s)]) THEN trimEnd(SubSeq(s, 1, Len(s) - 1)) ELSE s

RECURSIVE trimStart(_)
trimStart(s) ==
  IF Len(s) > 0 /\ IsSpace(s[1]) THEN trimStart(Tail(s)) ELSE s

trim(s) == trimEnd(trimStart(s))

(* s.replace(/\?+$/, '') *)
RECURSIVE stripQuestionMarks(_)
stripQuestionMarks(s) ==
  IF endsWith(s, "?") THEN stripQuestionMarks(SubSeq(s, 1, Len(s) - 1)) ELSE s

(* --------------------------- program constants ------------------------- *)
RecentWindow == 3
SubstantialLen == 20
PreStartDelay == 200
GraceDelay == 100
ReplyAdvanceDelay == 150
AutoAdvanceDelay == 250
NextStepDelay == 300
MinPostLen == 3

(* ------------------------------ data ----------------------------------- *)
NoId == "none"

DefaultQuestions ==
  << [id |-> "q1", question |-> "orig", category |-> "teach-back"],
     [id |-> "q2", question |-> "orig", category |-> "teach-back"],
     [id |-> "q3", question |-> "orig", category |-> "teach-back"],
     [id |-> "q4", question |-> "orig", category |-> "medication"],
     [id |-> "q5", question |-> "orig", category |-> "medication"],
     [id |-> "q6", question |-> "orig", category |-> "follow-up"],
     [id |-> "q7", question |-> "orig", category |-> "other"] >>

(* Plan steps the planning service may return (step_type "none": field absent). *)
StepQMed    == [step_type |-> "question",  content |-> "s_meds",    question_id |-> "q4"]
StepQFollow == [step_type |-> "question",  content |-> "s_when",    question_id |-> "q6"]
StepStmt    == [step_type |-> "statement", content |-> "s_welcome", question_id |-> NoId]
StepStmtQ   == [step_type |-> "statement", content |-> "s_ready",   question_id |-> NoId]
StepUntyped == [step_type |-> "none",      content |-> "s_pain",    question_id |-> "q1"]

AllPlans ==
  { <<>>,
    <<StepQMed>>,
    <<StepQMed, StepQFollow>>,
    <<StepQMed, StepStmt>>,
    <<StepStmt, StepUntyped>>,
    <<StepStmtQ, StepUntyped>>,
    <<StepQFollow, StepStmt, StepUntyped>>,
    <<StepQMed, StepStmt, StepStmt, StepQFollow>> }

Plans == { p \in AllPlans : Len(p) <= MaxPlanLen }

Utterances == {"u_yes", "u_avail", "u_hm"}
Replies == {"r_ok_q"}
PatientIds == {"p1"}

(* extracted_answers maps the summarizer may return *)
EmptyMap == [q \in {} |-> "empty"]
SummaryAnswers == { ("q4" :> "u_hm") }
Summaries == {"summary_text"}

Msg(speaker, content, qid) == [speaker |-> speaker, content |-> content, questionId |-> qid]

PlanOkContent(n) == <<"sys_plan_ok_0", "sys_plan_ok_1", "sys_plan_ok_2", "sys_plan_ok_3", "sys_plan_ok_4", "sys_plan_ok_5">>[n + 1]

(* `Error generating plan: ...` and `Error generating summary: ...` *)
PlanErrorContent(outcome) ==
  IF outcome = "throw" THEN "sys_plan_error_thrown" ELSE "sys_plan_error_not_ok"
SummaryErrorContent(outcome) ==
  IF outcome = "throw" THEN "sys_summary_error_thrown" ELSE "sys_summary_error_not_ok"

RemoveAt(s, i) == SubSeq(s, 1, i - 1) \o SubSeq(s, i + 1, Len(s))

(* A pending asynchronous continuation.  cplan/cadv: planSteps and        *)
(* isAdvancing as captured by the closure that created it; plan: the      *)
(* plan held in startMeeting's local planResponse; idx: the step index    *)
(* it works on; follow: follow_up_needed of the reaction.                 *)
Task(kind, pc, cplan, cadv, plan, idx, follow, delay) ==
  [kind |-> kind, pc |-> pc, cplan |-> cplan, cadv |-> cadv, plan |-> plan,
   idx |-> idx, follow |-> follow, delay |-> delay]

At(t, pc) == [t EXCEPT !.pc = pc, !.delay = 0]
Timer(t, delay) == [t EXCEPT !.pc = "timer", !.delay = delay]
GraceTimer == Task("grace", "timer", <<>>, FALSE, <<>>, 0, FALSE, GraceDelay)
(* setTimeout(() => { void playNextStep(); }, delay) from the closure of t *)
NextTimer(t, delay) == Task("next", "timer", t.cplan, t.cadv, <<>>, 0, FALSE, delay)
(* a reply timer that repeats the step just answered *)
AdvanceTimer_sameStep(t, nextIndex) ==
  Task("advance", "timer", t.cplan, t.cadv, <<>>, nextIndex - 1, FALSE, ReplyAdvanceDelay)

(* setTimeout(async () => {...}, 150) of the patient-reply path, nextIndex captured *)
AdvanceTimer(t, nextIndex) ==
  Task("advance", "timer", t.cplan, t.cadv, <<>>, nextIndex, FALSE, ReplyAdvanceDelay)

(* --------------------------- pure functions ---------------------------- *)
(* a classification that looks at the explicit type only *)
requiresAnswerInline_typeOnly(step) == step.step_type = "question"

(* a classification in which an explicit statement type overrides the '?' *)
requiresAnswerInline_explicitWins(step) ==
  IF step.step_type = "statement" THEN FALSE
  ELSE step.step_type = "question" \/ endsWith(trim(Text[step.content]), "?")

(* startMeeting and the patient-reply timer classify a step inline *)
requiresAnswerInline(step) ==
  step.step_type = "question" \/ endsWith(trim(Text[step.content]), "?")

stepRequiresAnswer(step) ==
  IF step.step_type = "question" THEN TRUE
  ELSE endsWith(trim(Text[step.content]), "?")

(* the keyword / length heuristic of extractAnswersFromLatestResponse *)
MatchesHeuristic(u) ==
  LET low == toLowerCase(Text[u]) IN
    \/ includes(low, <<"y","e","s">>)
    \/ includes(low, <<"n","o">>)
    \/ includes(low, <<"t","u","e","s","d","a","y">>)
    \/ includes(low, <<"w","e","d","n","e","s","d","a","y">>)
    \/ includes(low, <<"m","o","r","n","i","n","g">>)
    \/ includes(low, <<"a","f","t","e","r","n","o","o","n">>)
    \/ Len(Text[u]) > SubstantialLen

(* an extraction that does not look at the answers already held *)
Truthy_ignored(answers, qid) == FALSE

(* JavaScript truthiness of newAnswers[qid] *)
Truthy(answers, qid) == qid \in DOMAIN answers /\ Len(Text[answers[qid]]) > 0

IsQuestionBot(m) == m.speaker = "bot" /\ m.questionId # NoId

(* .slice(-n) *)
LastN(s, n) == IF Len(s) <= n THEN s ELSE SubSeq(s, Len(s) - n + 1, Len(s))

(* candidates taken from the whole transcript *)
recentBotMessages_all(conv) == SelectSeq(conv, IsQuestionBot)

(* candidates taken from the question list instead of the transcript *)
recentBotMessages_unasked(conv) == <<Msg("bot", "s_when", "q6")>>

(* lines 343-345: conversation.filter(bot && questionId).slice(-3) *)
recentBotMessages(conv) == LastN(SelectSeq(conv, IsQuestionBot), RecentWindow)

CategoryOf(qs, qid) ==
  IF \E i \in 1..Len(qs) : qs[i].id = qid
  THEN qs[CHOOSE i \in 1..Len(qs) : qs[i].id = qid /\ \A j \in 1..(i - 1) : qs[j].id # qid].category
  ELSE NoId

(* an upsert for every matched question, whatever its category *)
isAvailabilityQuestion_any(qs, qid, pid) == pid # NoId

(* lines 365-366: q && q.category === 'follow-up' && patientIdRef.current *)
isAvailabilityQuestion(qs, qid, pid) == CategoryOf(qs, qid) = "follow-up" /\ pid # NoId

(* One round of the forEach: binds the utterance to the candidate and,   *)
(* for a follow-up question, issues the availability upsert.             *)
ExtractOne(botMsg, u, qs, pid, acc) ==
  IF botMsg.questionId # NoId /\ ~Truthy(acc.answers, botMsg.questionId) /\ MatchesHeuristic(u)
  THEN [answers |-> (botMsg.questionId :> u) @@ acc.answers,
        has     |-> TRUE,
        reqs    |-> IF isAvailabilityQuestion(qs, botMsg.questionId, pid)
                    THEN Append(acc.reqs, [patient_id |-> pid, availability |-> u])
                    ELSE acc.reqs]
  ELSE acc

RECURSIVE ExtractFold(_, _, _, _, _)
ExtractFold(msgs, u, qs, pid, acc) ==
  IF msgs = <<>> THEN acc
  ELSE ExtractFold(Tail(msgs), u, qs, pid, ExtractOne(Head(msgs), u, qs, pid, acc))

extractAnswersFromLatestResponse(conv, answers, u, qs, pid) ==
  LET r == ExtractFold(recentBotMessages(conv), u, qs, pid,
                       [answers |-> answers, has |-> FALSE, reqs |-> <<>>])
  IN [answers |-> IF r.has THEN r.answers ELSE answers, reqs |-> r.reqs]

(* the reactive reply as spoken: a trailing '?' is removed unless a follow-up is needed *)
reactiveText(reply, follow) ==
  LET t == trim(Text[reply]) IN
    IF ~follow /\ endsWith(t, "?")
    THEN NameOf(trim(stripQuestionMarks(t)) \o <<".">>)
    ELSE NameOf(t)

(* useEffect(() => { ref.current = state }, [state]): runs when the state changed *)
EffectRef(ref, old, new) == IF new # old THEN new ELSE ref

(* ------------------------------- state --------------------------------- *)
VARIABLES
  status, questions, conversation, summary, extractedAnswers,   \* useState
  planSteps, currentStepIndex, waitingForAnswer, isAdvancing,   \* useState
  currentStepIndexRef, waitingForAnswerRef, isSpeakingRef,      \* useRef
  currentAudioRef, patientIdRef,                                \* useRef
  dashboard,          \* dashboardState['pre-discharge-meeting']
  tasks,              \* continuations awaiting a response or an audio event
  timers,             \* armed setTimeout callbacks, in arming order
  channel,            \* BroadcastChannel meeting-<patientId>: the bot_message texts posted
                      \* and the latest speaking_start / speaking_end signal
  upserts,            \* bodies posted to /meeting/answers
  emitted,            \* plan-step indexes appended as bot messages, in order
  lastOp,             \* the segment that ran last
  nCalls,             \* direct calls of the hook's actions made so far (SpecApi)
  recording, transcript,   \* patient tab: useState
  speakingRef,             \* patient tab: useRef, set between speaking_start and speaking_end
  recognizer,              \* patient tab: the SpeechRecognition object ("idle", "listening",
                           \* or "flushing" after stop() until its 'end' event)
  restartTimers,           \* patient tab: armed 350 ms recognizer restarts
  effectPending            \* patient tab: the posting effect is scheduled

uiVars == <<status, questions, summary, dashboard, planSteps>>
cursorVars == <<currentStepIndex, waitingForAnswer, currentStepIndexRef, waitingForAnswerRef>>
speechVars == <<isSpeakingRef, currentAudioRef>>
tabVars == <<recording, transcript, speakingRef, recognizer, restartTimers, effectPending>>

vars == <<status, questions, conversation, summary, extractedAnswers, planSteps,
          currentStepIndex, waitingForAnswer, isAdvancing, currentStepIndexRef,
          waitingForAnswerRef, isSpeakingRef, currentAudioRef, patientIdRef, dashboard,
          tasks, timers, channel, upserts, emitted, lastOp, nCalls, tabVars>>

Op(op, arg) == [op |-> op, arg |-> arg]

(* the patient tab as mounted: not listening, nothing recognized *)
TabInit ==
  /\ recording = FALSE
  /\ transcript = "empty"
  /\ speakingRef = FALSE
  /\ recognizer = "idle"
  /\ restartTimers = 0
  /\ effectPending = FALSE

Init ==
  /\ status = "not-started"
  /\ questions = DefaultQuestions
  /\ conversation = <<>>
  /\ summary = "empty"
  /\ extractedAnswers = EmptyMap
  /\ planSteps = <<>>
  /\ currentStepIndex = -1
  /\ waitingForAnswer = FALSE
  /\ isAdvancing = FALSE
  /\ currentStepIndexRef = -1
  /\ waitingForAnswerRef = FALSE
  /\ isSpeakingRef = FALSE
  /\ currentAudioRef = "null"
  /\ patientIdRef = NoId
  /\ dashboard = "not-completed"
  /\ tasks = <<>>
  /\ timers = <<>>
  /\ channel = [bot_message |-> <<>>, speaking |-> "none"]
  /\ upserts = <<>>
  /\ emitted = <<>>
  /\ lastOp = Op("init", "")
  /\ nCalls = 0
  /\ TabInit

(* every call of startMeeting, completeMeeting and addConversationMessage by the user
   leaves one entry in the transcript *)
IsInput(m) == m.speaker = "patient" \/ m.content \in {"sys_generating", "sys_concluded"}
InputCount(conv) == Len(SelectSeq(conv, IsInput))

(* new BroadcastChannel(...).postMessage(m), only when patientIdRef.current is set *)
PostBot(ch, pid, text) ==
  IF pid # NoId THEN [ch EXCEPT !.bot_message = Append(@, text)] ELSE ch
PostSpeakingStart(ch, pid) ==
  IF pid # NoId THEN [ch EXCEPT !.speaking = "speaking_start"] ELSE ch
PostSpeakingEnd(ch, pid) ==
  IF pid # NoId THEN [ch EXCEPT !.speaking = "speaking_end"] ELSE ch

BotMessage(step) == Msg("bot", step.content, step.question_id)

(* ------------- addQuestion / removeQuestion / updateQuestion ----------- *)
(* ids uuidv4() hands out to added questions *)
NewIds == <<"q8", "q9", "q10">>
IdsInUse == { questions[i].id : i \in 1..Len(questions) }
Without(answers, id) == [q \in DOMAIN answers \ {id} |-> answers[q]]
(* the Partial<DischargeQuestion> values a caller passes to updateQuestion *)
QuestionUpdates == { [field |-> "question", value |-> "edited"],
                     [field |-> "category", value |-> "follow-up"] }
ApplyUpdate(q, upd) ==
  IF upd.field = "question" THEN [q EXCEPT !.question = upd.value]
  ELSE [q EXCEPT !.category = upd.value]

(* lines 71-74 *)
addQuestion(text, category) ==
  /\ \E k \in 1..Len(NewIds) :
        /\ NewIds[k] \notin IdsInUse
        /\ \A j \in 1..(k - 1) : NewIds[j] \in IdsInUse
        /\ questions' = Append(questions, [id |-> NewIds[k], question |-> text, category |-> category])
  /\ lastOp' = Op("addQuestion", status)
  /\ UNCHANGED <<status, summary, dashboard, planSteps, conversation, extractedAnswers,
                 isAdvancing, cursorVars, speechVars, patientIdRef, tasks, timers, channel,
                 upserts, emitted>>

(* lines 76-84 *)
removeQuestion(id) ==
  /\ questions' = SelectSeq(questions, LAMBDA q : q.id # id)
  /\ extractedAnswers' = Without(extractedAnswers, id)
  /\ lastOp' = Op("removeQuestion", status)
  /\ UNCHANGED <<status, summary, dashboard, planSteps, conversation, isAdvancing, cursorVars,
                 speechVars, patientIdRef, tasks, timers, channel, upserts, emitted>>

(* lines 86-98 *)
updateQuestion(id, upd) ==
  /\ questions' = [i \in 1..Len(questions) |->
                     IF questions[i].id = id THEN ApplyUpdate(questions[i], upd) ELSE questions[i]]
  /\ extractedAnswers' = IF upd.field = "question" /\ upd.value # "empty"
                         THEN Without(extractedAnswers, id)
                         ELSE extractedAnswers
  /\ lastOp' = Op("updateQuestion", status)
  /\ UNCHANGED <<status, summary, dashboard, planSteps, conversation, isAdvancing, cursorVars,
                 speechVars, patientIdRef, tasks, timers, channel, upserts, emitted>>

(* ----------------------------- startMeeting ---------------------------- *)
(* lines 100-120: up to the plan request *)
startMeeting(pid) ==
  /\ InputCount(conversation) < MaxInputs
  /\ patientIdRef' = pid
  /\ status' = "in-progress"
  /\ dashboard' = "in-progress"
  /\ conversation' = Append(conversation, Msg("system", "sys_generating", NoId))
  /\ tasks' = Append(tasks, Task("start", "plan", planSteps, isAdvancing, <<>>, 0, FALSE, 0))
  /\ lastOp' = Op("other", "")
  /\ UNCHANGED <<questions, summary, extractedAnswers, planSteps, isAdvancing, cursorVars,
                 speechVars, timers, channel, upserts, emitted>>

(* a failed plan request that clears the transcript like a successful one *)
PlanFailed_clears(i, outcome) ==
  /\ tasks[i].pc = "plan"
  /\ conversation' = <<Msg("system", PlanErrorContent(outcome), NoId)>>
  /\ status' = "not-started"
  /\ tasks' = RemoveAt(tasks, i)
  /\ lastOp' = Op("PlanFailed", outcome)
  /\ UNCHANGED <<questions, summary, extractedAnswers, planSteps, isAdvancing, cursorVars,
                 speechVars, patientIdRef, dashboard, timers, channel, upserts, emitted, nCalls, tabVars>>

(* a failed plan request that leaves the status as it is *)
PlanFailed_keepsStatus(i, outcome) ==
  /\ tasks[i].pc = "plan"
  /\ conversation' = Append(conversation, Msg("system", PlanErrorContent(outcome), NoId))
  /\ tasks' = RemoveAt(tasks, i)
  /\ lastOp' = Op("PlanFailed", outcome)
  /\ UNCHANGED <<status, questions, summary, extractedAnswers, planSteps, isAdvancing, cursorVars,
                 speechVars, patientIdRef, dashboard, timers, channel, upserts, emitted, nCalls, tabVars>>

(* lines 122-126 and 160-169: the plan request threw or was not OK *)
PlanFailed(i, outcome) ==
  /\ tasks[i].pc = "plan"
  /\ conversation' = Append(conversation, Msg("system", PlanErrorContent(outcome), NoId))
  /\ status' = "not-started"
  /\ tasks' = RemoveAt(tasks, i)
  /\ lastOp' = Op("PlanFailed", outcome)
  /\ UNCHANGED <<questions, summary, extractedAnswers, planSteps, isAdvancing, cursorVars,
                 speechVars, patientIdRef, dashboard, timers, channel, upserts, emitted, nCalls, tabVars>>

(* lines 127-140: the plan arrived *)
PlanLoaded(i, plan) ==
  /\ tasks[i].pc = "plan"
  /\ conversation' = <<Msg("system", PlanOkContent(Len(plan)), NoId)>>
  /\ planSteps' = plan
  /\ currentStepIndex' = -1
  /\ waitingForAnswer' = FALSE
  /\ currentStepIndexRef' = EffectRef(currentStepIndexRef, currentStepIndex, -1)
  /\ waitingForAnswerRef' = EffectRef(waitingForAnswerRef, waitingForAnswer, FALSE)
  /\ tasks' = RemoveAt(tasks, i)
  /\ timers' = Append(timers, Timer([tasks[i] EXCEPT !.plan = plan], PreStartDelay))
  /\ emitted' = <<>>
  /\ lastOp' = Op("other", "")
  /\ UNCHANGED <<status, questions, summary, extractedAnswers, isAdvancing, speechVars,
                 patientIdRef, dashboard, channel, upserts, nCalls, tabVars>>

(* a step that is relayed and spoken without being added to the transcript *)
EmitStep_relayOnly(step, idx) ==
  /\ conversation' = conversation
  /\ channel' = PostBot(channel, patientIdRef, step.content)
  /\ emitted' = Append(emitted, idx)

(* the step is appended to the transcript and relayed to the patient tab;  *)
(* playSpeech then requests the audio (speakBot)                           *)
EmitStep(step, idx) ==
  /\ conversation' = Append(conversation, BotMessage(step))
  /\ channel' = PostBot(channel, patientIdRef, step.content)
  /\ emitted' = Append(emitted, idx)

CanFire(k) == \A j \in 1..(k - 1) : timers[j].delay > timers[k].delay

TaskTag(t) == IF t.kind = "reply" /\ t.follow THEN "reply-follow-up" ELSE t.kind

(* lines 141-148: after the 200 ms pause startMeeting speaks the first step *)
StartFirstStep(k) ==
  LET t == timers[k] IN
  /\ t.kind = "start" /\ CanFire(k)
  /\ timers' = RemoveAt(timers, k)
  /\ IF Len(t.plan) > 0
     THEN /\ EmitStep(t.plan[1], 0)
          /\ tasks' = Append(tasks, At([t EXCEPT !.idx = 0], "speak"))
     ELSE UNCHANGED <<conversation, channel, emitted, tasks>>
  /\ lastOp' = Op("other", "")
  /\ UNCHANGED <<uiVars, extractedAnswers, isAdvancing, cursorVars, speechVars, patientIdRef,
                 upserts, nCalls, tabVars>>

(* a reply timer that moves the cursor even when the plan is exhausted *)
ReplyAdvanceTimer_unbounded(k) ==
  LET t == timers[k] IN
  /\ t.kind = "advance" /\ CanFire(k)
  /\ timers' = RemoveAt(timers, k)
  /\ IF t.idx >= Len(t.cplan)
     THEN /\ currentStepIndexRef' = t.idx
          /\ currentStepIndex' = t.idx
          /\ UNCHANGED <<conversation, channel, emitted, tasks, waitingForAnswer,
                         waitingForAnswerRef>>
     ELSE LET step == t.cplan[t.idx + 1] IN
          /\ currentStepIndexRef' = t.idx
          /\ currentStepIndex' = t.idx
          /\ waitingForAnswer' = IF requiresAnswerInline(step) THEN TRUE ELSE waitingForAnswer
          /\ waitingForAnswerRef' = IF requiresAnswerInline(step) THEN TRUE ELSE waitingForAnswerRef
          /\ EmitStep(step, t.idx)
          /\ tasks' = Append(tasks, At(t, "speak"))
  /\ lastOp' = Op("ReplyAdvanceTimer", IF t.idx >= Len(t.cplan) THEN "out-of-range" ELSE "emitted")
  /\ UNCHANGED <<uiVars, extractedAnswers, isAdvancing, speechVars, patientIdRef, upserts, nCalls, tabVars>>

(* lines 227-243: the 150 ms timer armed after a patient reply *)
ReplyAdvanceTimer(k) ==
  LET t == timers[k] IN
  /\ t.kind = "advance" /\ CanFire(k)
  /\ timers' = RemoveAt(timers, k)
  /\ IF t.idx >= Len(t.cplan)
     THEN UNCHANGED <<conversation, channel, emitted, tasks, cursorVars>>
     ELSE LET step == t.cplan[t.idx + 1] IN
          /\ currentStepIndexRef' = t.idx
          /\ currentStepIndex' = t.idx
          /\ waitingForAnswer' = IF requiresAnswerInline(step) THEN TRUE ELSE waitingForAnswer
          /\ waitingForAnswerRef' = IF requiresAnswerInline(step) THEN TRUE ELSE waitingForAnswerRef
          /\ EmitStep(step, t.idx)
          /\ tasks' = Append(tasks, At(t, "speak"))
  /\ lastOp' = Op("ReplyAdvanceTimer", IF t.idx >= Len(t.cplan) THEN "out-of-range" ELSE "emitted")
  /\ UNCHANGED <<uiVars, extractedAnswers, isAdvancing, speechVars, patientIdRef, upserts, nCalls, tabVars>>

(* lines 309-329: playNextStep, called from an auto-advance timer *)
playNextStep(k) ==
  LET t == timers[k]
      nextIndex == currentStepIndexRef + 1
      dropped == t.cadv \/ waitingForAnswerRef \/ nextIndex >= Len(t.cplan)
  IN
  /\ t.kind = "next" /\ CanFire(k)
  /\ timers' = RemoveAt(timers, k)
  /\ IF dropped
     THEN UNCHANGED <<conversation, channel, emitted, tasks, cursorVars, isAdvancing>>
     ELSE LET step == t.cplan[nextIndex + 1] IN
          /\ isAdvancing' = TRUE
          /\ currentStepIndexRef' = nextIndex
          /\ currentStepIndex' = nextIndex
          /\ waitingForAnswer' = IF stepRequiresAnswer(step) THEN TRUE ELSE waitingForAnswer
          /\ waitingForAnswerRef' = IF stepRequiresAnswer(step) THEN TRUE ELSE waitingForAnswerRef
          /\ EmitStep(step, nextIndex)
          /\ tasks' = Append(tasks, At([t EXCEPT !.idx = nextIndex], "speak"))
  /\ lastOp' = Op("playNextStep", IF dropped THEN "dropped" ELSE "emitted")
  /\ UNCHANGED <<uiVars, extractedAnswers, speechVars, patientIdRef, upserts, nCalls, tabVars>>

(* the grace timer of an audio listener (lines 290-292) *)
GraceTimerFires(k) ==
  /\ timers[k].kind = "grace" /\ CanFire(k)
  /\ timers' = RemoveAt(timers, k)
  /\ isSpeakingRef' = FALSE
  /\ channel' = PostSpeakingEnd(channel, patientIdRef)
  /\ lastOp' = Op("other", "")
  /\ UNCHANGED <<uiVars, conversation, extractedAnswers, isAdvancing, cursorVars,
                 currentAudioRef, patientIdRef, tasks, upserts, emitted, nCalls, tabVars>>

(* a reply continuation that advances whatever the reaction asked for *)
staysOnQuestion_never(t) == FALSE

(* lines 213-216: if (Boolean(data.follow_up_needed)) return *)
staysOnQuestion(t) == t.follow

(* What runs when `await playSpeech(...)` returns to task i (and, for a    *)
(* failed reaction, the same advancement code): lines 149-157, 213-227,    *)
(* 244-247, 330-337.  `base`: the armed timers at that point.              *)
Resume(i, base) ==
  LET t == tasks[i] IN
  /\ tasks' = RemoveAt(tasks, i)
  /\ CASE t.kind = "start" ->
            LET step == t.plan[1] IN
            IF requiresAnswerInline(step)
            THEN /\ waitingForAnswer' = TRUE
                 /\ waitingForAnswerRef' = EffectRef(waitingForAnswerRef, waitingForAnswer, TRUE)
                 /\ currentStepIndexRef' = 0
                 /\ currentStepIndex' = 0
                 /\ timers' = base
                 /\ UNCHANGED isAdvancing
            ELSE /\ currentStepIndex' = 0
                 /\ currentStepIndexRef' = EffectRef(currentStepIndexRef, currentStepIndex, 0)
                 /\ timers' = Append(base, NextTimer(t, AutoAdvanceDelay))
                 /\ UNCHANGED <<waitingForAnswer, waitingForAnswerRef, isAdvancing>>
       [] t.kind = "reply" ->
            IF staysOnQuestion(t)
            THEN /\ timers' = base
                 /\ UNCHANGED <<cursorVars, isAdvancing>>
            ELSE /\ waitingForAnswer' = FALSE
                 /\ waitingForAnswerRef' = FALSE
                 /\ timers' = Append(base, AdvanceTimer(t, currentStepIndexRef + 1))
                 /\ UNCHANGED <<currentStepIndex, currentStepIndexRef, isAdvancing>>
       [] t.kind = "advance" ->
            /\ timers' = IF requiresAnswerInline(t.cplan[t.idx + 1])
                         THEN base
                         ELSE Append(base, NextTimer(t, AutoAdvanceDelay))
            /\ UNCHANGED <<cursorVars, isAdvancing>>
       [] t.kind = "next" ->
            /\ timers' = IF stepRequiresAnswer(t.cplan[t.idx + 1])
                         THEN base
                         ELSE Append(base, NextTimer(t, NextStepDelay))
            /\ isAdvancing' = FALSE
            /\ UNCHANGED cursorVars

(* --------------------------- speakBot / playSpeech --------------------- *)
(* a failed synthesis after which the caller of playSpeech is never resumed *)
SpeakFailed_blocks(i, outcome) ==
  /\ tasks[i].pc = "speak"
  /\ tasks' = RemoveAt(tasks, i)
  /\ lastOp' = Op("SpeakFailed", TaskTag(tasks[i]))
  /\ UNCHANGED <<uiVars, conversation, extractedAnswers, isAdvancing, cursorVars, speechVars,
                 patientIdRef, timers, channel, upserts, emitted, nCalls, tabVars>>

(* lines 254-266, 277: the synthesis request failed; playSpeech returns *)
SpeakFailed(i, outcome) ==
  /\ tasks[i].pc = "speak"
  /\ Resume(i, timers)
  /\ lastOp' = Op("SpeakFailed", TaskTag(tasks[i]))
  /\ UNCHANGED <<uiVars, conversation, extractedAnswers, speechVars, patientIdRef, channel,
                 upserts, emitted, nCalls, tabVars>>

(* lines 278-292: audio arrived; the current element is stopped and reset  *)
(* (pause, src = '', load), the new one becomes current and starts         *)
(* playing.  Resetting an element that had already finished fires 'error'  *)
(* on it (empty src), and its listener arms another grace timer.           *)
SpeakLoaded(i) ==
  /\ tasks[i].pc = "speak"
  /\ tasks' = [j \in 1..Len(tasks) |->
                 IF j = i THEN At(tasks[j], "playing")
                 ELSE IF tasks[j].pc = "playing" THEN At(tasks[j], "stopped")
                 ELSE tasks[j]]
  /\ timers' = IF currentAudioRef = "over" THEN Append(timers, GraceTimer) ELSE timers
  /\ currentAudioRef' = "live"
  /\ isSpeakingRef' = TRUE
  /\ channel' = PostSpeakingStart(channel, patientIdRef)
  /\ lastOp' = Op("SpeakLoaded", TaskTag(tasks[i]))
  /\ UNCHANGED <<uiVars, conversation, extractedAnswers, isAdvancing, cursorVars, patientIdRef,
                 upserts, emitted, nCalls, tabVars>>

(* audio listeners that resolve the promise without arming the grace timer *)
AudioDone_noGrace(i, ev) ==
  /\ tasks[i].pc = "playing"
  /\ currentAudioRef' = "over"
  /\ Resume(i, timers)
  /\ lastOp' = Op("AudioDone", TaskTag(tasks[i]))
  /\ UNCHANGED <<uiVars, conversation, extractedAnswers, isSpeakingRef, patientIdRef,
                 channel, upserts, emitted, nCalls, tabVars>>

(* 'ended' 'error' or a rejected play() on the playing element *)
AudioDone(i, ev) ==
  /\ tasks[i].pc = "playing"
  /\ currentAudioRef' = "over"
  /\ Resume(i, Append(timers, GraceTimer))
  /\ lastOp' = Op("AudioDone", TaskTag(tasks[i]))
  /\ UNCHANGED <<uiVars, conversation, extractedAnswers, isSpeakingRef, patientIdRef,
                 channel, upserts, emitted, nCalls, tabVars>>

(* 'error' on an element that was stopped while playing (src = '', load()) *)
StoppedAudioError(i) ==
  /\ tasks[i].pc = "stopped"
  /\ Resume(i, Append(timers, GraceTimer))
  /\ lastOp' = Op("StoppedAudioError", TaskTag(tasks[i]))
  /\ UNCHANGED <<uiVars, conversation, extractedAnswers, speechVars, patientIdRef, channel,
                 upserts, emitted, nCalls, tabVars>>

(* ------------------------ addConversationMessage ----------------------- *)
(* a gate that does not look at the speaking flag *)
patientInputAccepted_ungated == status = "in-progress"

(* lines 179-184: status === 'in-progress' and the bot is not speaking *)
patientInputAccepted == status = "in-progress" /\ ~isSpeakingRef

(* a handler that asks for a reaction to every accepted message *)
addConversationMessage_alwaysReacts(u) ==
  LET accepted == patientInputAccepted
      r == extractAnswersFromLatestResponse(conversation, extractedAnswers, u, questions,
                                            patientIdRef)
  IN
  /\ InputCount(conversation) < MaxInputs
  /\ conversation' = Append(conversation, Msg("patient", u, NoId))
  /\ IF accepted
     THEN /\ extractedAnswers' = r.answers
          /\ upserts' = upserts \o r.reqs
          /\ tasks' = Append(tasks, Task("reply", "react", planSteps, isAdvancing, <<>>, 0,
                                         FALSE, 0))
     ELSE UNCHANGED <<extractedAnswers, upserts, tasks>>
  /\ lastOp' = Op("addConversationMessage",
                  IF accepted THEN "accepted"
                  ELSE IF status = "in-progress" THEN "ignored-speaking" ELSE "not-in-progress")
  /\ UNCHANGED <<uiVars, isAdvancing, cursorVars, speechVars, patientIdRef, timers, channel,
                 emitted>>

(* lines 172-190, called with speaker 'patient' *)
addConversationMessage(u) ==
  LET accepted == patientInputAccepted
      r == extractAnswersFromLatestResponse(conversation, extractedAnswers, u, questions,
                                            patientIdRef)
  IN
  /\ InputCount(conversation) < MaxInputs
  /\ conversation' = Append(conversation, Msg("patient", u, NoId))
  /\ IF accepted
     THEN /\ extractedAnswers' = r.answers
          /\ upserts' = upserts \o r.reqs
          /\ tasks' = IF waitingForAnswerRef
                      THEN Append(tasks, Task("reply", "react", planSteps, isAdvancing, <<>>, 0,
                                              FALSE, 0))
                      ELSE tasks
     ELSE UNCHANGED <<extractedAnswers, upserts, tasks>>
  /\ lastOp' = Op("addConversationMessage",
                  IF accepted THEN "accepted"
                  ELSE IF status = "in-progress" THEN "ignored-speaking" ELSE "not-in-progress")
  /\ UNCHANGED <<uiVars, isAdvancing, cursorVars, speechVars, patientIdRef, timers, channel,
                 emitted>>

(* a failed reaction that ends the reply handling without advancing *)
ReactFailed_stops(i, outcome) ==
  /\ tasks[i].pc = "react"
  /\ tasks' = RemoveAt(tasks, i)
  /\ lastOp' = Op("ReactFailed", outcome)
  /\ UNCHANGED <<uiVars, conversation, extractedAnswers, isAdvancing, cursorVars, speechVars,
                 patientIdRef, timers, channel, upserts, emitted, nCalls, tabVars>>

(* lines 191-203, 218-227: the reaction request threw or was not OK *)
ReactFailed(i, outcome) ==
  /\ tasks[i].pc = "react"
  /\ Resume(i, timers)
  /\ lastOp' = Op("ReactFailed", outcome)
  /\ UNCHANGED <<uiVars, conversation, extractedAnswers, speechVars, patientIdRef, channel,
                 upserts, emitted, nCalls, tabVars>>

(* lines 203-212: the reaction arrived; the reply is appended and spoken *)
ReactLoaded(i, reply, follow) ==
  /\ tasks[i].pc = "react"
  /\ conversation' = Append(conversation, Msg("bot", reactiveText(reply, follow), NoId))
  /\ tasks' = [tasks EXCEPT ![i] = At([@ EXCEPT !.follow = follow], "speak")]
  /\ lastOp' = Op("ReactLoaded", IF follow THEN "follow-up" ELSE "no-follow-up")
  /\ UNCHANGED <<uiVars, extractedAnswers, isAdvancing, cursorVars, speechVars, patientIdRef,
                 timers, channel, upserts, emitted, nCalls, tabVars>>

(* ---------------------------- completeMeeting -------------------------- *)
(* lines 384-400: up to the summarization request *)
completeMeeting(pid) ==
  /\ InputCount(conversation) < MaxInputs
  /\ status' = "completed"
  /\ conversation' = Append(conversation, Msg("system", "sys_concluded", NoId))
  /\ tasks' = Append(tasks, Task("complete", "summarize", planSteps, isAdvancing, <<>>, 0,
                                 FALSE, 0))
  /\ lastOp' = Op("completeMeeting", status)
  /\ UNCHANGED <<questions, summary, extractedAnswers, planSteps, isAdvancing, cursorVars,
                 speechVars, patientIdRef, dashboard, timers, channel, upserts, emitted>>

(* a failed summary that puts the meeting back in progress *)
SummaryFailed_resets(i, outcome) ==
  /\ tasks[i].pc = "summarize"
  /\ conversation' = Append(conversation, Msg("system", SummaryErrorContent(outcome), NoId))
  /\ status' = "in-progress"
  /\ tasks' = RemoveAt(tasks, i)
  /\ lastOp' = Op("SummaryFailed", outcome)
  /\ UNCHANGED <<questions, summary, dashboard, planSteps, extractedAnswers, isAdvancing,
                 cursorVars, speechVars, patientIdRef, timers, channel, upserts, emitted, nCalls, tabVars>>

(* a failed summary that discards the answers extracted during the meeting *)
SummaryFailed_clears(i, outcome) ==
  /\ tasks[i].pc = "summarize"
  /\ conversation' = Append(conversation, Msg("system", SummaryErrorContent(outcome), NoId))
  /\ extractedAnswers' = EmptyMap
  /\ tasks' = RemoveAt(tasks, i)
  /\ lastOp' = Op("SummaryFailed", outcome)
  /\ UNCHANGED <<uiVars, isAdvancing, cursorVars, speechVars, patientIdRef,
                 timers, channel, upserts, emitted, nCalls, tabVars>>

(* lines 402-405, 418-424 *)
SummaryFailed(i, outcome) ==
  /\ tasks[i].pc = "summarize"
  /\ conversation' = Append(conversation, Msg("system", SummaryErrorContent(outcome), NoId))
  /\ tasks' = RemoveAt(tasks, i)
  /\ lastOp' = Op("SummaryFailed", outcome)
  /\ UNCHANGED <<uiVars, extractedAnswers, isAdvancing, cursorVars, speechVars, patientIdRef,
                 timers, channel, upserts, emitted, nCalls, tabVars>>

(* lines 407-416 *)
SummaryLoaded(i, text, answers) ==
  /\ tasks[i].pc = "summarize"
  /\ summary' = text
  /\ extractedAnswers' = answers
  /\ dashboard' = "completed"
  /\ conversation' = Append(conversation, Msg("system", "sys_summary_ok", NoId))
  /\ tasks' = RemoveAt(tasks, i)
  /\ lastOp' = Op("other", "")
  /\ UNCHANGED <<status, questions, planSteps, isAdvancing, cursorVars, speechVars, patientIdRef,
                 timers, channel, upserts, emitted, nCalls, tabVars>>

(* ------------------- the DischargeMeeting component -------------------- *)
(* "Start Meeting" is rendered while status is not-started *)
ClickStart ==
  /\ status = "not-started"
  /\ \E pid \in PatientIds : startMeeting(pid)
  /\ UNCHANGED <<nCalls, tabVars>>

(* "End & Summarize" is rendered while status is in-progress *)
ClickComplete ==
  /\ status = "in-progress"
  /\ \E pid \in PatientIds : completeMeeting(pid)
  /\ UNCHANGED <<nCalls, tabVars>>

(* the patient-response control is rendered while status is in-progress *)
PatientSpeaks ==
  /\ status = "in-progress"
  /\ \E u \in Utterances : addConversationMessage(u)
  /\ UNCHANGED <<nCalls, tabVars>>

(* ---------------------- the patient tab (PatientVoiceDemoPage) ---------- *)
(* speakingRef of the patient tab: set by speaking_start, cleared by speaking_end *)
patientTabSpeaking == channel.speaking = "speaking_start"

(* The effect that posts a recognized utterance as patient_message while the tab is   *)
(* listening.  The message goes to the other BroadcastChannel objects of the name:    *)
(* the patient tab's own listener, which handles speaking_start, speaking_end and     *)
(* bot_message only; the control tab opens the channel for posting alone and          *)
(* registers no onmessage handler, so nothing is queued for the hook.                 *)
PatientTabPosts(u) ==
  /\ ~patientTabSpeaking
  /\ Len(Text[u]) >= MinPostLen
  /\ lastOp' = Op("patient_message", u)
  /\ UNCHANGED <<uiVars, conversation, extractedAnswers, isAdvancing, cursorVars, speechVars,
                 patientIdRef, tasks, timers, channel, upserts, emitted, nCalls, tabVars>>

(* everything of the control tab: the patient tab's handlers touch none of it *)
hookVars == <<uiVars, conversation, extractedAnswers, isAdvancing, cursorVars, speechVars,
              patientIdRef, tasks, timers, channel, upserts, emitted, nCalls>>

(* final texts the recognizer may deliver *)
TabResults == {"u_yes", "u_hm", "t_ok"}
SpeakingSignals == {"speaking_start", "speaking_end"}

(* rec.stop(): the recognizer may still deliver what it captured, then ends *)
Stopped(r) == IF r = "listening" THEN "flushing" ELSE r
(* rec.start(): throws InvalidStateError unless the recognizer has ended *)
CanStartRecognizer == recognizer = "idle"

(* part_002 lines 35-45.  React runs a scheduled effect before it renders   *)
(* the update of a click, so no posting effect is pending here.  Stopping:  *)
(* the effect re-run by the change of `recording` returns at once.          *)
(* Starting: the transcript is cleared; if rec.start() throws,              *)
(* setRecording(true) is not reached.                                       *)
toggleRecording ==
  /\ ~effectPending
  /\ IF recording
     THEN /\ recognizer' = Stopped(recognizer)
          /\ recording' = FALSE
          /\ UNCHANGED transcript
     ELSE /\ transcript' = "empty"
          /\ recognizer' = IF CanStartRecognizer THEN "listening" ELSE recognizer
          /\ recording' = CanStartRecognizer
  /\ effectPending' = FALSE
  /\ lastOp' = Op("toggleRecording", IF recording THEN "stop" ELSE "start")
  /\ UNCHANGED <<hookVars, speakingRef, restartTimers>>

(* part_002 lines 22-29: a final result; setTranscript re-renders, and      *)
(* schedules the posting effect, when the value changes                     *)
onresult(u) ==
  LET finalText == NameOf(trim(Text[u])) IN
  /\ recognizer \in {"listening", "flushing"}
  /\ IF ~speakingRef
     THEN /\ transcript' = finalText
          /\ effectPending' = (effectPending \/ finalText # transcript)
     ELSE UNCHANGED <<transcript, effectPending>>
  /\ lastOp' = Op("onresult", IF speakingRef THEN "dropped" ELSE "kept")
  /\ UNCHANGED <<hookVars, recording, speakingRef, recognizer, restartTimers>>

(* part_002 lines 49-59: the posting effect; after a post the transcript is *)
(* cleared and the effect's next run returns at its first test              *)
PostEffect ==
  LET posts == /\ transcript # "empty" /\ recording /\ ~speakingRef
               /\ Len(Text[transcript]) >= MinPostLen
  IN
  /\ effectPending
  /\ effectPending' = FALSE
  /\ transcript' = IF posts THEN "empty" ELSE transcript
  /\ lastOp' = IF posts THEN Op("patient_message", transcript) ELSE Op("PostEffect", "skipped")
  /\ UNCHANGED <<hookVars, recording, speakingRef, recognizer, restartTimers>>

(* part_002 lines 62-76: the channel listener, for the two speaking signals *)
Receive(signal) ==
  /\ IF signal = "speaking_start"
     THEN /\ speakingRef' = TRUE
          /\ recognizer' = Stopped(recognizer)
          /\ UNCHANGED restartTimers
     ELSE /\ recording => restartTimers < MaxRestarts
          /\ speakingRef' = FALSE
          /\ restartTimers' = IF recording THEN restartTimers + 1 ELSE restartTimers
          /\ UNCHANGED recognizer
  /\ lastOp' = Op("Receive", signal)
  /\ UNCHANGED <<hookVars, recording, transcript, effectPending>>

(* part_002 line 74: the restart armed by a speaking_end, 350 ms later *)
RestartTimerFires ==
  /\ restartTimers > 0
  /\ restartTimers' = restartTimers - 1
  /\ recognizer' = IF CanStartRecognizer THEN "listening" ELSE recognizer
  /\ lastOp' = Op("RestartTimerFires", IF CanStartRecognizer THEN "started" ELSE "threw")
  /\ UNCHANGED <<hookVars, recording, transcript, speakingRef, effectPending>>

(* the recognizer's 'end' event: after stop(), or by itself (silence, error) *)
RecognizerEnds ==
  /\ recognizer # "idle"
  /\ recognizer' = "idle"
  /\ lastOp' = Op("RecognizerEnds", recognizer)
  /\ UNCHANGED <<hookVars, recording, transcript, speakingRef, restartTimers, effectPending>>

(* The patient tab on its own: the patient's clicks, the recognizer's       *)
(* events, the tab's effect and timers, and speaking signals arriving in    *)
(* any order and at any time from the channel.                              *)
NextTab ==
  \/ toggleRecording
  \/ \E u \in TabResults : onresult(u)
  \/ PostEffect
  \/ \E signal \in SpeakingSignals : Receive(signal)
  \/ RestartTimerFires
  \/ RecognizerEnds

SpecTab == Init /\ [][NextTab]_vars

FailureKinds == {"throw", "not-ok"}

Ix == 1..Len(tasks)
Tx == 1..Len(timers)
AudioEvents == {"ended", "error", "play-rejected"}

(* collaborator responses, audio events and timers, common to both drivers *)
Async ==
  \/ \E i \in Ix, o \in FailureKinds : PlanFailed(i, o)
  \/ \E i \in Ix, plan \in Plans : PlanLoaded(i, plan)
  \/ \E i \in Ix, o \in FailureKinds : ReactFailed(i, o)
  \/ \E i \in Ix, reply \in Replies, follow \in BOOLEAN : ReactLoaded(i, reply, follow)
  \/ \E i \in Ix, o \in FailureKinds : SpeakFailed(i, o)
  \/ \E i \in Ix : SpeakLoaded(i)
  \/ \E i \in Ix, ev \in AudioEvents : AudioDone(i, ev)
  \/ \E i \in Ix : StoppedAudioError(i)
  \/ \E i \in Ix, o \in FailureKinds : SummaryFailed(i, o)
  \/ \E i \in Ix, text \in Summaries, answers \in SummaryAnswers : SummaryLoaded(i, text, answers)
  \/ \E k \in Tx : StartFirstStep(k)
  \/ \E k \in Tx : ReplyAdvanceTimer(k)
  \/ \E k \in Tx : playNextStep(k)
  \/ \E k \in Tx : GraceTimerFires(k)

Next ==
  \/ ClickStart
  \/ ClickComplete
  \/ PatientSpeaks
  \/ \E u \in Utterances : PatientTabPosts(u)
  \/ \E i \in Ix, o \in FailureKinds : PlanFailed(i, o)
  \/ \E i \in Ix, plan \in Plans : PlanLoaded(i, plan)
  \/ \E i \in Ix, o \in FailureKinds : ReactFailed(i, o)
  \/ \E i \in Ix, reply \in Replies, follow \in BOOLEAN : ReactLoaded(i, reply, follow)
  \/ \E i \in Ix, o \in FailureKinds : SpeakFailed(i, o)
  \/ \E i \in Ix : SpeakLoaded(i)
  \/ \E i \in Ix, ev \in AudioEvents : AudioDone(i, ev)
  \/ \E i \in Ix : StoppedAudioError(i)
  \/ \E i \in Ix, o \in FailureKinds : SummaryFailed(i, o)
  \/ \E i \in Ix, text \in Summaries, answers \in SummaryAnswers : SummaryLoaded(i, text, answers)
  \/ \E k \in Tx : StartFirstStep(k)
  \/ \E k \in Tx : ReplyAdvanceTimer(k)
  \/ \E k \in Tx : playNextStep(k)
  \/ \E k \in Tx : GraceTimerFires(k)

Spec == Init /\ [][Next]_vars

(* The hook alone: its exported actions called in any state *)
Called == nCalls < MaxApiCalls /\ nCalls' = nCalls + 1 /\ UNCHANGED tabVars
CallStart == Called /\ \E pid \in PatientIds : startMeeting(pid)
CallComplete == Called /\ \E pid \in PatientIds : completeMeeting(pid)
CallAddPatientMessage == Called /\ \E u \in Utterances : addConversationMessage(u)
CallAddQuestion == Called /\ \E c \in {"follow-up", "other"} : addQuestion("added", c)
CallRemoveQuestion == Called /\ \E id \in IdsInUse : removeQuestion(id)
CallUpdateQuestion == Called /\ \E id \in IdsInUse, upd \in QuestionUpdates : updateQuestion(id, upd)

NextApi ==
  \/ CallStart
  \/ CallComplete
  \/ CallAddPatientMessage
  \/ CallAddQuestion
  \/ CallRemoveQuestion
  \/ CallUpdateQuestion
  \/ Async

SpecApi == Init /\ [][NextApi]_vars

(* Scheduling: a started audio element eventually fires 'ended' or 'error' *)
(* (a rejected play() included), a reset element fires 'error', and every   *)
(* armed setTimeout callback eventually runs.                               *)
Fairness ==
  /\ WF_vars(\E i \in Ix, ev \in AudioEvents : AudioDone(i, ev))
  /\ WF_vars(\E i \in Ix : StoppedAudioError(i))
  /\ WF_vars(\E k \in Tx : StartFirstStep(k))
  /\ WF_vars(\E k \in Tx : ReplyAdvanceTimer(k))
  /\ WF_vars(\E k \in Tx : playNextStep(k))
  /\ WF_vars(\E k \in Tx : GraceTimerFires(k))

FairSpec == SpecApi /\ Fairness

(* The live extraction on its own: extractAnswersFromLatestResponse reads   *)
(* only the transcript, the answers held, the question list and the        *)
(* patient id.  The meeting is in progress with the runner at rest (no     *)
(* answer awaited, nothing pending); the transcript holds up to MaxAsked   *)
(* bot messages already spoken and answers are held for some of the        *)
(* questions asked.                                                        *)
AskedMessages ==
  { Msg("bot", "s_meds", "q4"), Msg("bot", "s_when", "q6"), Msg("bot", "s_pain", "q1"),
    Msg("bot", "s_welcome", NoId) }
Transcripts == UNION { [1..n -> AskedMessages] : n \in 0..MaxAsked }
AskedIds(conv) == { conv[i].questionId : i \in 1..Len(conv) } \ {NoId}
HeldAnswers(conv) == { [q \in S |-> "u_hm"] : S \in SUBSET AskedIds(conv) }

InitExtract ==
  /\ status = "in-progress"
  /\ questions = DefaultQuestions
  /\ conversation \in Transcripts
  /\ summary = "empty"
  /\ extractedAnswers \in HeldAnswers(conversation)
  /\ planSteps = <<>>
  /\ currentStepIndex = -1
  /\ waitingForAnswer = FALSE
  /\ isAdvancing = FALSE
  /\ currentStepIndexRef = -1
  /\ waitingForAnswerRef = FALSE
  /\ isSpeakingRef = FALSE
  /\ currentAudioRef = "over"
  /\ patientIdRef \in PatientIds
  /\ dashboard = "in-progress"
  /\ tasks = <<>>
  /\ timers = <<>>
  /\ channel = [bot_message |-> <<>>, speaking |-> "speaking_end"]
  /\ upserts = <<>>
  /\ emitted = <<>>
  /\ lastOp = Op("init", "")
  /\ nCalls = 0
  /\ TabInit

NextExtract == PatientSpeaks

SpecExtract == InitExtract /\ [][NextExtract]_vars

(* ------------------------------ properties ----------------------------- *)
Last(seq) == seq[Len(seq)]
IsStepTimer(t) == t.kind \in {"advance", "next"}
StepTimers(ts) == SelectSeq(ts, IsStepTimer)
IsSpeech(t) == t.pc \in {"speak", "playing", "stopped"}
IsReact(t) == t.pc = "react"
(* question ids asked in the bot messages the extraction looks at and not yet answered *)
OpenCandidates(conv, answers) ==
  { recentBotMessages(conv)[i].questionId : i \in 1..Len(recentBotMessages(conv)) }
    \ DOMAIN answers

(* C1: a patient message passed to addConversationMessage while the speaking flag is   *)
(* set is only recorded in the transcript: no answer is extracted, no availability     *)
(* upsert and no reaction request is issued, no timer is armed, and the cursor         *)
(* (currentStepIndex, waitingForAnswer and their refs) and the emitted steps stay as   *)
(* they are.                                                                           *)
C1_SpeakingGate ==
  [][ (lastOp'.op = "addConversationMessage" /\ isSpeakingRef)
        => /\ UNCHANGED <<extractedAnswers, upserts, tasks, timers, cursorVars, emitted,
                          isAdvancing, channel>>
           /\ conversation' = Append(conversation, Last(conversation')) ]_vars

(* a matching patient message arrived while the bot was speaking a question that was  *)
(* still unanswered, and was ignored                                                   *)
C1_Witness ==
  /\ lastOp = Op("addConversationMessage", "ignored-speaking")
  /\ isSpeakingRef
  /\ waitingForAnswerRef
  /\ Last(conversation).speaker = "patient"
  /\ MatchesHeuristic(Last(conversation).content)
  /\ OpenCandidates(SubSeq(conversation, 1, Len(conversation) - 1), extractedAnswers) # {}

(* C2: plan steps are emitted in plan order, each index once and none skipped: the     *)
(* i-th step emitted since the plan arrived is the step of index i - 1.                *)
C2_StepsInOrder == \A i \in 1..Len(emitted) : emitted[i] = i - 1

Rank(st) == CASE st = "not-started" -> 0 [] st = "in-progress" -> 1 [] st = "completed" -> 2

C5_FollowUpStays ==
  [][ (lastOp' = Op("ReactLoaded", "follow-up")
         \/ (lastOp'.op \in {"SpeakFailed", "SpeakLoaded", "AudioDone", "StoppedAudioError"}
               /\ lastOp'.arg = "reply-follow-up"))
        => /\ UNCHANGED <<cursorVars, emitted, isAdvancing>>
           /\ StepTimers(timers') = StepTimers(timers) ]_vars

(* two follow-up replies in a row were spoken for the first question and the runner    *)
(* still waits on it                                                                   *)
C5_Witness ==
  /\ lastOp = Op("AudioDone", "reply-follow-up")
  /\ waitingForAnswer /\ waitingForAnswerRef
  /\ currentStepIndex = 0
  /\ emitted = <<0>>
  /\ Len(SelectSeq(conversation, LAMBDA m : m.speaker = "bot" /\ m.content = "r_ok_q")) = 2

(* C6: when the reaction to an accepted reply asks for no follow-up, waitingForAnswer  *)
(* is cleared and a timer is armed for step currentStepIndex + 1; when that timer      *)
(* fires and the index is within the plan, exactly that step is appended as a bot      *)
(* message and becomes currentStepIndex; beyond the plan nothing is emitted.           *)
C6_ReplyAdvances ==
  [][ /\ (lastOp'.op \in {"SpeakFailed", "AudioDone", "StoppedAudioError"} /\ lastOp'.arg = "reply")
        => /\ ~waitingForAnswer' /\ ~waitingForAnswerRef'
           /\ currentStepIndex' = currentStepIndex
           /\ emitted' = emitted
           /\ StepTimers(timers') = Append(StepTimers(timers), Last(timers'))
           /\ Last(timers').kind = "advance"
           /\ Last(timers').idx = currentStepIndex + 1
           /\ Last(timers').cplan = planSteps
      /\ lastOp'.op = "ReplyAdvanceTimer"
        => \E k \in 1..Len(timers) :
             /\ timers[k].kind = "advance" /\ timers' = RemoveAt(timers, k)
             /\ IF timers[k].idx < Len(planSteps)
                THEN /\ emitted' = Append(emitted, timers[k].idx)
                     /\ currentStepIndex' = timers[k].idx
                     /\ currentStepIndexRef' = timers[k].idx
                     /\ conversation' = Append(conversation, BotMessage(planSteps[timers[k].idx + 1]))
                ELSE UNCHANGED <<emitted, conversation, cursorVars>> ]_vars

(* the one-question plan, answered with "Yes, I have them all": the answer is bound    *)
(* to the question, waitingForAnswer is false, and the timer found no further step     *)
C6_Witness ==
  /\ lastOp = Op("ReplyAdvanceTimer", "out-of-range")
  /\ planSteps = <<StepQMed>>
  /\ "q4" \in DOMAIN extractedAnswers /\ extractedAnswers["q4"] = "u_yes"
  /\ Text[extractedAnswers["q4"]] = Text.u_yes
  /\ ~waitingForAnswer
  /\ currentStepIndex = 0

(* the requests a patient message adds to /meeting/answers: one per newly answered     *)
(* question of category follow-up, each carrying the utterance as __availability__     *)
AvailabilityRequests(qids, u, pid) ==
  [i \in 1..Cardinality({q \in qids : CategoryOf(questions, q) = "follow-up"})
     |-> [patient_id |-> pid, availability |-> u]]

(* C7: when a patient message is handled, every question it newly answers gets the     *)
(* utterance text as its answer, and the availability upserts issued are exactly one   *)
(* per newly answered question of category follow-up, each carrying that same text;    *)
(* questions of other categories issue none.                                           *)
C7_AvailabilityUpsert ==
  [][ lastOp'.op = "addConversationMessage"
        => LET u == Last(conversation').content
               bound == DOMAIN extractedAnswers' \ DOMAIN extractedAnswers
           IN /\ \A q \in bound : extractedAnswers'[q] = u
              /\ upserts' = upserts \o AvailabilityRequests(bound, u, patientIdRef) ]_vars

(* "Tuesday and Wednesday mornings work best" answered the follow-up question after a  *)
(* medication question had been answered without any upsert                            *)
C7_Witness ==
  /\ lastOp = Op("addConversationMessage", "accepted")
  /\ Text[Last(conversation).content] = Text.u_avail
  /\ DOMAIN extractedAnswers = {"q4", "q6"}
  /\ extractedAnswers["q6"] = "u_avail"
  /\ extractedAnswers["q4"] = "u_yes"
  /\ upserts = <<[patient_id |-> "p1", availability |-> "u_avail"]>>

(* C8 as stated: completeMeeting called while status is not-started changes nothing:   *)
(* status stays not-started, no summarization request is issued, the transcript is     *)
(* left as it is.                                                                      *)
C8_CompleteNotStartedNoOp ==
  [][ lastOp' = Op("completeMeeting", "not-started")
        => /\ status' = "not-started"
           /\ conversation' = conversation
           /\ tasks' = tasks ]_vars

(* C9: when the plan request fails, a system message describing the error is appended  *)
(* to the transcript, no bot step is emitted or relayed, no speech is requested and no *)
(* timer is armed, and status is not-started again.                                    *)
C9_PlanFailure ==
  [][ lastOp'.op = "PlanFailed"
        => /\ status' = "not-started"
           /\ conversation' = Append(conversation, Last(conversation'))
           /\ Last(conversation').speaker = "system"
           /\ Last(conversation').content \in {"sys_plan_error_thrown", "sys_plan_error_not_ok"}
           /\ UNCHANGED <<emitted, channel, timers, planSteps, cursorVars>>
           /\ Len(tasks') = Len(tasks) - 1
           /\ \A j \in 1..Len(tasks') : tasks'[j] \in {tasks[k] : k \in 1..Len(tasks)} ]_vars

(* the plan request failed while the meeting was in progress; the transcript ends with *)
(* the error message, nothing was emitted, and Start is offered again                  *)
C9_Witness ==
  /\ lastOp.op = "PlanFailed"
  /\ status = "not-started"
  /\ Last(conversation).content = PlanErrorContent(lastOp.arg)
  /\ conversation[Len(conversation) - 1].content = "sys_generating"
  /\ emitted = <<>>
  /\ ENABLED ClickStart

(* C10: when the reaction request fails, no reply is appended, relayed or spoken, and  *)
(* the runner does what it does after a reply without follow-up: waitingForAnswer is   *)
(* cleared and a timer is armed for step currentStepIndex + 1.                         *)
C10_ReactFailure ==
  [][ lastOp'.op = "ReactFailed"
        => /\ UNCHANGED <<conversation, channel, emitted, speechVars, currentStepIndex>>
           /\ Len(SelectSeq(tasks', IsSpeech)) = Len(SelectSeq(tasks, IsSpeech))
           /\ Len(SelectSeq(tasks', IsReact)) = Len(SelectSeq(tasks, IsReact)) - 1
           /\ ~waitingForAnswer' /\ ~waitingForAnswerRef'
           /\ StepTimers(timers') = Append(StepTimers(timers), Last(timers'))
           /\ Last(timers').kind = "advance"
           /\ Last(timers').idx = currentStepIndex + 1
           /\ Last(timers').delay = ReplyAdvanceDelay ]_vars

(* the reaction failed while the runner was waiting on the first of two questions, and *)
(* the second one was then emitted                                                     *)
C10_Witness ==
  /\ lastOp = Op("ReplyAdvanceTimer", "emitted")
  /\ emitted = <<0, 1>>
  /\ currentStepIndex = 1
  /\ \A i \in 1..Len(conversation) :
        conversation[i].speaker = "bot" => conversation[i].questionId # NoId

(* C11: when the summarization request fails, a system message with the error is       *)
(* appended to the transcript and nothing else is touched: status, summary,            *)
(* extractedAnswers and the dashboard entry keep their values, and nothing is emitted  *)
(* or spoken.                                                                          *)
C11_SummaryFailure ==
  [][ lastOp'.op = "SummaryFailed"
        => /\ UNCHANGED <<status, summary, extractedAnswers, dashboard, questions, planSteps,
                          cursorVars, emitted, channel, timers, speechVars>>
           /\ conversation' = Append(conversation, Last(conversation'))
           /\ Last(conversation').speaker = "system"
           /\ Last(conversation').content \in {"sys_summary_error_thrown", "sys_summary_error_not_ok"} ]_vars

(* the summary request failed after a meeting in which an answer had been extracted:   *)
(* status is completed, the answer is still there, no summary was stored               *)
C11_Witness ==
  /\ lastOp.op = "SummaryFailed"
  /\ status = "completed"
  /\ summary = "empty"
  /\ dashboard = "in-progress"
  /\ "q4" \in DOMAIN extractedAnswers /\ extractedAnswers["q4"] = "u_yes"
  /\ Last(conversation).content = SummaryErrorContent(lastOp.arg)

IsGrace(t) == t.kind = "grace"

(* C12: when the synthesis request fails nothing is played: the speaking flag, the     *)
(* current audio element and the channel are untouched and no grace timer is armed;    *)
(* the caller's continuation runs at once, as after a finished playback: after the     *)
(* first step the runner waits on a question or arms the auto-advance, after a reply   *)
(* without follow-up it clears waitingForAnswer and arms the advancement timer, after  *)
(* a follow-up reply it stays, after an advanced step it arms the auto-advance unless  *)
(* the step needs an answer, and playNextStep releases isAdvancing.                    *)
C12_SpeechFailure ==
  [][ lastOp'.op = "SpeakFailed"
        => /\ UNCHANGED <<speechVars, channel, conversation, emitted, status>>
           /\ SelectSeq(timers', IsGrace) = SelectSeq(timers, IsGrace)
           /\ \E i \in 1..Len(tasks) :
                /\ tasks[i].pc = "speak"
                /\ tasks' = RemoveAt(tasks, i)
                /\ CASE lastOp'.arg = "start" ->
                          /\ currentStepIndex' = 0
                          /\ IF requiresAnswerInline(planSteps[1])
                             THEN waitingForAnswer' /\ waitingForAnswerRef' /\ timers' = timers
                             ELSE /\ timers' = Append(timers, Last(timers'))
                                  /\ Last(timers').kind = "next"
                                  /\ Last(timers').delay = AutoAdvanceDelay
                     [] lastOp'.arg = "reply" ->
                          /\ ~waitingForAnswer' /\ ~waitingForAnswerRef'
                          /\ timers' = Append(timers, Last(timers'))
                          /\ Last(timers').kind = "advance"
                          /\ Last(timers').idx = currentStepIndex + 1
                     [] lastOp'.arg = "reply-follow-up" ->
                          UNCHANGED <<cursorVars, timers, isAdvancing>>
                     [] lastOp'.arg = "advance" ->
                          /\ UNCHANGED <<cursorVars, isAdvancing>>
                          /\ IF requiresAnswerInline(planSteps[tasks[i].idx + 1])
                             THEN timers' = timers
                             ELSE /\ timers' = Append(timers, Last(timers'))
                                  /\ Last(timers').kind = "next"
                                  /\ Last(timers').delay = AutoAdvanceDelay
                     [] lastOp'.arg = "next" ->
                          /\ UNCHANGED cursorVars
                          /\ ~isAdvancing'
                          /\ IF stepRequiresAnswer(planSteps[tasks[i].idx + 1])
                             THEN timers' = timers
                             ELSE /\ timers' = Append(timers, Last(timers'))
                                  /\ Last(timers').kind = "next"
                                  /\ Last(timers').delay = NextStepDelay ]_vars

(* the synthesis of the first question failed: nothing was played or signalled, and    *)
(* the runner waits for the answer                                                     *)
C12_Witness ==
  /\ lastOp = Op("SpeakFailed", "start")
  /\ emitted = <<0>>
  /\ currentStepIndex = 0
  /\ waitingForAnswer /\ waitingForAnswerRef
  /\ ~isSpeakingRef /\ currentAudioRef = "null"
  /\ channel.speaking = "none"
  /\ timers = <<>>

IsPrefix(s, t) == Len(s) <= Len(t) /\ SubSeq(t, 1, Len(s)) = s
IsPlanConfirmation(m) ==
  m.speaker = "system" /\ \E n \in 0..5 : m.content = PlanOkContent(n)

(* C13 as stated: the transcript is append-only, every earlier transcript is a prefix  *)
(* of every later one.                                                                 *)
C13_AppendOnly == [][ IsPrefix(conversation, conversation') ]_vars

(* C13 amended: every operation that changes the transcript appends exactly one        *)
(* message at its end, except the arrival of the plan, which replaces the whole        *)
(* transcript by the plan-confirmation message.                                        *)
C13_AppendOrPlanReset ==
  [][ conversation' # conversation
        => \/ conversation' = Append(conversation, Last(conversation'))
           \/ /\ Len(conversation') = 1
              /\ IsPlanConfirmation(conversation'[1])
              /\ Last(timers').kind = "start" ]_vars

(* the plan arrived: the transcript, which held the message announcing the plan        *)
(* generation, now holds the confirmation only                                         *)
C13_Witness ==
  /\ Len(conversation) = 1
  /\ IsPlanConfirmation(conversation[1])
  /\ \E k \in 1..Len(timers) : timers[k].kind = "start"
  /\ status = "in-progress"
  /\ planSteps # <<>>

(* C14 as stated: a patient_message posted by the patient tab while the meeting is in  *)
(* progress is fed to the hook as a patient transcript message: the posting step       *)
(* appends it to the transcript or leaves its delivery to the hook pending.            *)
C14_PatientMessageDelivered ==
  [][ (lastOp'.op = "patient_message" /\ status = "in-progress")
        => \/ conversation' = Append(conversation, Msg("patient", lastOp'.arg, NoId))
           \/ \E i \in 1..Len(tasks') : tasks'[i].pc = "patient_message" ]_vars

(* C15 as stated: once the meeting has started, addQuestion, removeQuestion and        *)
(* updateQuestion leave the question list and extractedAnswers unchanged.              *)
C15_QuestionsFrozen ==
  [][ (lastOp'.op \in {"addQuestion", "removeQuestion", "updateQuestion"}
         /\ status # "not-started")
        => UNCHANGED <<questions, extractedAnswers>> ]_vars

(* a segment that applies the result of a reaction request, an advancement timer or an *)
(* auto-advance, or of the speech requested by one of them                             *)
IsLateResult(op) ==
  \/ op.op \in {"ReactLoaded", "ReactFailed", "ReplyAdvanceTimer", "playNextStep"}
  \/ /\ op.op \in {"SpeakLoaded", "SpeakFailed", "AudioDone", "StoppedAudioError"}
     /\ op.arg \in {"reply", "reply-follow-up", "advance", "next"}

(* C16 as stated: once status is completed, the late result of a reaction request, an  *)
(* advancement timer or an auto-advance appends no bot message, starts no playback     *)
(* and changes neither currentStepIndex nor waitingForAnswer.                          *)
C16_LateResultsIgnored ==
  [][ (status = "completed" /\ IsLateResult(lastOp'))
        => /\ conversation' = conversation
           /\ UNCHANGED <<currentStepIndex, waitingForAnswer, emitted>>
           /\ lastOp'.op # "SpeakLoaded" ]_vars

(* an advancement is in flight: a plan step emitted by a reply timer or by             *)
(* playNextStep whose speech has not returned to it yet                                *)
AdvancementInFlight ==
  \E i \in 1..Len(tasks) :
     tasks[i].kind \in {"advance", "next"} /\ tasks[i].pc \in {"speak", "playing"}

(* C17 as stated: an advancement requested while another advancement is in flight is   *)
(* dropped: it emits no step and changes neither the transcript nor the cursor.        *)
C17_NoConcurrentAdvance ==
  [][ (lastOp'.op \in {"ReplyAdvanceTimer", "playNextStep"} /\ AdvancementInFlight)
        => UNCHANGED <<emitted, conversation, cursorVars>> ]_vars

(* the step at currentStepIndex needs an answer *)
CurrentStepIsQuestion ==
  /\ currentStepIndex >= 0 /\ currentStepIndex < Len(planSteps)
  /\ stepRequiresAnswer(planSteps[currentStepIndex + 1])

(* a patient message follows the last bot message of the current step in the transcript *)
CurrentStepAnswered ==
  \E i \in 1..Len(conversation) :
     /\ conversation[i] = BotMessage(planSteps[currentStepIndex + 1])
     /\ \A j \in (i + 1)..Len(conversation) :
           conversation[j] # BotMessage(planSteps[currentStepIndex + 1])
     /\ \E j \in (i + 1)..Len(conversation) : conversation[j].speaker = "patient"

(* C18 as stated: waitingForAnswer holds only when the step at currentStepIndex is a   *)
(* question step, and it holds whenever that step is a question whose answer has not   *)
(* been acknowledged, in particular when the patient has not answered it at all.       *)
C18_RunnerCursor ==
  /\ waitingForAnswer => CurrentStepIsQuestion
  /\ (CurrentStepIsQuestion /\ ~CurrentStepAnswered) => waitingForAnswer

(* an utterance is being played: its audio element was started and has not ended *)
AudioPlaying == \E i \in 1..Len(tasks) : tasks[i].pc = "playing"

(* C19 as stated: the speaking flag is set from the start of every playback until that *)
(* playback has ended and its grace delay has elapsed, also when the utterance         *)
(* preempted an earlier one: the flag is true in every state in which audio plays.     *)
C19_FlagWhilePlaying == AudioPlaying => isSpeakingRef

(* C20: every started playback is eventually followed by the speaking flag being       *)
(* cleared and by a speaking_end broadcast, whether it ends normally, errors, fails to *)
(* start or is preempted: the flag is never left set for ever and every speaking_start *)
(* on the channel is followed by a speaking_end.                                       *)
C20_EventuallyCleared ==
  /\ isSpeakingRef ~> ~isSpeakingRef
  /\ (channel.speaking = "speaking_start") ~> (channel.speaking = "speaking_end")

(* an utterance was preempted while playing: its reset element has fired 'error', the  *)
(* flag is set and speaking_start is the last broadcast; the clearing must follow      *)
C20_Witness ==
  /\ lastOp.op = "StoppedAudioError"
  /\ isSpeakingRef /\ channel.speaking = "speaking_start"

(* the plan step whose audio a speech task of the runner carries *)
IsStepTask(t) == t.kind \in {"start", "advance", "next"}
StepOf(t) == IF t.kind = "start" THEN t.plan[1] ELSE t.cplan[t.idx + 1]
InSeq(x, seq) == \E i \in 1..Len(seq) : seq[i] = x

(* C21: on every emission path a plan step is appended to the transcript before it is  *)
(* broadcast as bot_message, and both precede its playback: a bot_message is only ever *)
(* posted by the operation that appends the same text as the last transcript message,  *)
(* and the step of every playing utterance is in the transcript and on the channel.    *)
C21_AppendBeforePlayback ==
  [][ /\ channel'.bot_message # channel.bot_message
           => /\ Len(channel'.bot_message) = Len(channel.bot_message) + 1
              /\ Len(conversation') = Len(conversation) + 1
              /\ IsPrefix(conversation, conversation')
              /\ Last(conversation').speaker = "bot"
              /\ Last(conversation').content = Last(channel'.bot_message)
      /\ \A i \in 1..Len(tasks') :
           (IsStepTask(tasks'[i]) /\ tasks'[i].pc = "playing")
              => /\ InSeq(BotMessage(StepOf(tasks'[i])), conversation')
                 /\ InSeq(StepOf(tasks'[i]).content, channel'.bot_message) ]_vars

(* the step emitted by the auto-advance is playing, the earlier steps were emitted by   *)
(* the first-step path and by the advancement after an answer                           *)
C21_Witness ==
  /\ emitted = <<0, 1, 2>>
  /\ \E i \in 1..Len(tasks) :
        tasks[i].kind = "next" /\ tasks[i].pc = "playing" /\ tasks[i].idx = 2

(* nothing is pending: no request or playback in flight and no timer armed *)
Quiescent == tasks = <<>> /\ timers = <<>>

(* C22 as stated: after a statement step has been played the runner goes on to the     *)
(* next plan step by itself, also when the statement is the first step: the meeting is *)
(* never in progress with nothing pending on a statement step that has a successor     *)
(* which was not emitted.                                                              *)
C22_StatementAutoAdvances ==
  ( /\ status = "in-progress" /\ Quiescent
    /\ currentStepIndex >= 0 /\ currentStepIndex + 1 < Len(planSteps)
    /\ ~stepRequiresAnswer(planSteps[currentStepIndex + 1]) )
  => InSeq(currentStepIndex + 1, emitted)

(* the last character of a text that is not white space, if any, is '?' *)
LastNonSpaceIsQuestionMark(txt) ==
  \E i \in 1..Len(txt) : txt[i] = "?" /\ \A j \in (i + 1)..Len(txt) : IsSpace(txt[j])

AwaitsAnswer(step) ==
  step.step_type = "question" \/ LastNonSpaceIsQuestionMark(Text[step.content])

PlaybackOver(op) == op.op \in {"SpeakFailed", "AudioDone", "StoppedAudioError"}

(* C23: a plan step makes the runner wait for an answer exactly when its type is        *)
(* question or the last non-blank character of its content is '?', on all three paths:  *)
(* after the first step's playback waitingForAnswer holds iff the rule holds for it and *)
(* otherwise the auto-advance is armed; the advancement after an answer and the         *)
(* auto-advance set waitingForAnswer when they emit such a step and leave it alone for  *)
(* any other step.                                                                      *)
C23_AwaitRule ==
  [][ /\ (PlaybackOver(lastOp') /\ lastOp'.arg = "start")
           => IF AwaitsAnswer(planSteps[1])
              THEN waitingForAnswer' /\ StepTimers(timers') = StepTimers(timers)
              ELSE /\ ~waitingForAnswer'
                   /\ StepTimers(timers') = Append(StepTimers(timers), Last(timers'))
                   /\ Last(timers').kind = "next"
      /\ (lastOp' \in {Op("ReplyAdvanceTimer", "emitted"), Op("playNextStep", "emitted")})
           => IF AwaitsAnswer(planSteps[Last(emitted') + 1])
              THEN waitingForAnswer' /\ waitingForAnswerRef'
              ELSE UNCHANGED <<waitingForAnswer, waitingForAnswerRef>> ]_vars

(* a step without an explicit type whose text ends in '?' was emitted by the advancement *)
(* after an answer and the runner waits on it                                            *)
C23_Witness ==
  /\ lastOp = Op("ReplyAdvanceTimer", "emitted")
  /\ planSteps[currentStepIndex + 1].step_type = "none"
  /\ waitingForAnswer

(* C24 as stated: a step whose explicit type is statement is treated as a statement     *)
(* even if its text ends in '?': waitingForAnswer is never set on it.                   *)
C24_ExplicitTypeWins ==
  ( /\ currentStepIndex >= 0 /\ currentStepIndex < Len(planSteps)
    /\ planSteps[currentStepIndex + 1].step_type = "statement" )
  => ~waitingForAnswer

(* C24 amended: the trailing '?' wins over an explicit statement type: once the         *)
(* playback of a first step of type statement whose text ends in '?' is over, the       *)
(* runner waits for an answer and arms no auto-advance.                                 *)
C24_QuestionMarkWins ==
  [][ ( /\ PlaybackOver(lastOp') /\ lastOp'.arg = "start"
        /\ planSteps[1].step_type = "statement"
        /\ LastNonSpaceIsQuestionMark(Text[planSteps[1].content]) )
        => /\ waitingForAnswer' /\ currentStepIndex' = 0
           /\ StepTimers(timers') = StepTimers(timers) ]_vars

(* the runner waits on a first step of type statement whose text ends in '?' *)
C24_Witness ==
  /\ currentStepIndex = 0 /\ waitingForAnswer
  /\ Len(planSteps) > 0 /\ planSteps[1] = StepStmtQ
  /\ PlaybackOver(lastOp) /\ lastOp.arg = "start"

(* a timer of the given kind was taken off the timer list by this step *)
Fired(kind, P(_)) ==
  \E k \in 1..Len(timers) :
     timers[k].kind = kind /\ timers' = RemoveAt(timers, k) /\ P(timers[k])
TargetsPastEnd(t) == t.idx >= Len(planSteps)
AnyTimer(t) == TRUE

(* C25: advancing past the end of the plan is a no-op: the cursor stays within          *)
(* -1 .. plan length - 1 and only steps of the plan are emitted; when the advancement   *)
(* armed by an accepted answer targets an index past the last step, or the auto-advance *)
(* runs with the cursor on the last step, no step is emitted, the transcript, the       *)
(* cursor, the waiting flag and the status are unchanged (in particular the meeting is  *)
(* not completed) and nothing is started.                                               *)
C25_PastEndNoOp ==
  [][ /\ -1 <= currentStepIndex' /\ currentStepIndex' < Len(planSteps')
      /\ \A i \in 1..Len(emitted') : emitted'[i] < Len(planSteps')
      /\ ( \/ lastOp'.op = "ReplyAdvanceTimer" /\ Fired("advance", TargetsPastEnd)
           \/ /\ lastOp'.op = "playNextStep" /\ Fired("next", AnyTimer)
              /\ currentStepIndexRef + 1 >= Len(planSteps) )
         => UNCHANGED <<emitted, conversation, cursorVars, status, summary, tasks, channel>> ]_vars

(* the advancement after the answer to the last step has run: the plan is exhausted and *)
(* the meeting is still in progress                                                     *)
C25_Witness ==
  /\ lastOp = Op("ReplyAdvanceTimer", "out-of-range")
  /\ Len(planSteps) > 0 /\ currentStepIndex = Len(planSteps) - 1
  /\ C2_StepsInOrder /\ Len(emitted) = Len(planSteps)
  /\ status = "in-progress"

(* the auto-advance armed after a final statement has run and was dropped *)
C25_AutoAdvanceAtEnd ==
  /\ lastOp = Op("playNextStep", "dropped")
  /\ planSteps = <<StepQMed, StepStmt>> /\ currentStepIndex = 1 /\ emitted = <<0, 1>>

(* question ids of the bot messages that are followed by fewer than RecentWindow        *)
(* question-bearing bot messages                                                        *)
LaterAsked(conv, i) == { j \in (i + 1)..Len(conv) : IsQuestionBot(conv[j]) }
LastAskedIds(conv) ==
  { conv[i].questionId :
      i \in { k \in 1..Len(conv) :
                IsQuestionBot(conv[k]) /\ Cardinality(LaterAsked(conv, k)) < RecentWindow } }

(* question ids of the last RecentWindow bot messages among those that carry a question *)
(* id without an answer in `answers`                                                    *)
UnansweredAsked(conv, answers) ==
  { k \in 1..Len(conv) : IsQuestionBot(conv[k]) /\ conv[k].questionId \notin DOMAIN answers }
LastUnansweredIds(conv, answers) ==
  { conv[i].questionId :
      i \in { k \in UnansweredAsked(conv, answers) :
                Cardinality({ j \in UnansweredAsked(conv, answers) : j > k }) < RecentWindow } }

(* C26 as stated: the candidates of an accepted utterance are the last 3 bot messages   *)
(* among those that carry a question id and have no answer yet, so a matching utterance *)
(* is bound to every one of them, also when the three most recent question-bearing      *)
(* messages are all answered.                                                           *)
C26_AnsweredExcludedFirst ==
  [][ ( /\ lastOp' = Op("addConversationMessage", "accepted")
        /\ MatchesHeuristic(Last(conversation').content) )
        => \A q \in LastUnansweredIds(conversation, extractedAnswers) :
              q \in DOMAIN extractedAnswers' ]_vars

(* C26 amended: the candidates are the last 3 bot messages that carry a question id,    *)
(* answered or not; a matching utterance is bound to exactly those of them that have no *)
(* answer yet and to nothing else, and a non-matching utterance binds nothing.          *)
C26_LastThreeThenUnanswered ==
  [][ lastOp' = Op("addConversationMessage", "accepted")
        => LET u == Last(conversation').content
               cands == LastAskedIds(conversation) \ DOMAIN extractedAnswers
           IN IF MatchesHeuristic(u)
              THEN /\ DOMAIN extractedAnswers' = DOMAIN extractedAnswers \cup cands
                   /\ \A q \in cands : extractedAnswers'[q] = u
                   /\ \A q \in DOMAIN extractedAnswers : extractedAnswers'[q] = extractedAnswers[q]
              ELSE extractedAnswers' = extractedAnswers ]_vars

(* a matching utterance was accepted while an unanswered question stood before three   *)
(* question-bearing bot messages that were all answered: it stays without an answer    *)
C26_Witness ==
  /\ lastOp = Op("addConversationMessage", "accepted")
  /\ MatchesHeuristic(Last(conversation).content)
  /\ Len(conversation) = 5
  /\ conversation[1].questionId = "q4" /\ "q4" \notin DOMAIN extractedAnswers
  /\ \A i \in 2..4 : IsQuestionBot(conversation[i])
                       /\ conversation[i].questionId \in DOMAIN extractedAnswers

(* C27: the live extraction binds an utterance only to questions posed before it: a     *)
(* step that gives a question a new live answer is the handling of an accepted patient  *)
(* message, the answer is the text of that message, which is the newest transcript      *)
(* entry, and a bot message carrying the question id was already in the transcript;     *)
(* no other step of the runner (emitting a question, a reaction, a timer) touches the   *)
(* answers, so earlier patient messages are never scanned again; the only other writer  *)
(* is the arrival of the final summary.                                                 *)
C27_BindsOnlyPosedQuestions ==
  [][ /\ lastOp'.op = "addConversationMessage"
           => \A q \in DOMAIN extractedAnswers' :
                 (q \notin DOMAIN extractedAnswers \/ extractedAnswers'[q] # extractedAnswers[q])
                    => /\ lastOp'.arg = "accepted"
                       /\ conversation' = Append(conversation, Last(conversation'))
                       /\ Last(conversation').speaker = "patient"
                       /\ extractedAnswers'[q] = Last(conversation').content
                       /\ \E i \in 1..Len(conversation) :
                             conversation[i].speaker = "bot" /\ conversation[i].questionId = q
      /\ extractedAnswers' # extractedAnswers
           => \/ lastOp'.op = "addConversationMessage"
              \/ /\ Len(conversation') = Len(conversation) + 1
                 /\ Last(conversation') = Msg("system", "sys_summary_ok", NoId) ]_vars

(* an accepted utterance has just been bound to the follow-up question asked before it, *)
(* and to no question that was not asked                                                *)
C27_Witness ==
  /\ lastOp = Op("addConversationMessage", "accepted")
  /\ Len(conversation) >= 2
  /\ conversation[Len(conversation) - 1] = BotMessage(StepQFollow)
  /\ DOMAIN extractedAnswers = {"q6"}
  /\ extractedAnswers["q6"] = Last(conversation).content

IsBot(m) == m.speaker = "bot"
BotLines(conv) == [i \in 1..Len(SelectSeq(conv, IsBot)) |-> SelectSeq(conv, IsBot)[i].content]

(* C28 as stated: every bot utterance appended to the transcript, plan step or reactive *)
(* reply, is broadcast as a bot_message with the same text: the bot lines mirrored to   *)
(* the patient tab are the bot lines of the transcript, in the same order.              *)
C28_BotLinesMirrored ==
  patientIdRef # NoId => channel.bot_message = BotLines(conversation)

(* C29 as stated: between a speaking_start and the speaking_end that follows it the    *)
(* patient tab keeps its recognizer stopped and posts no patient_message.  Stated for   *)
(* what the tab does by itself (the patient's own press of the button aside): no step   *)
(* posts a patient_message while the tab's speaking flag is set, and no step other than *)
(* the button starts the recognizer while the flag is set.                              *)
C29_RecognizerPausedWhileSpeaking ==
  [][ /\ lastOp'.op = "patient_message" => ~speakingRef
      /\ (recognizer' = "listening" /\ recognizer # "listening"
            /\ lastOp'.op # "toggleRecording")
           => ~speakingRef' ]_vars

(* C30: a patient message accepted while waitingForAnswer is false is appended to the   *)
(* transcript and may update extractedAnswers, but it starts no reaction request, arms  *)
(* no timer, emits no bot message or plan step and leaves the cursor and the waiting    *)
(* flag as they are.                                                                    *)
C30_AcceptedButNotAwaited ==
  [][ (lastOp' = Op("addConversationMessage", "accepted") /\ ~waitingForAnswer)
        => /\ conversation' = Append(conversation, Last(conversation'))
           /\ Last(conversation').speaker = "patient"
           /\ UNCHANGED <<tasks, timers, cursorVars, emitted, channel, speechVars, status>> ]_vars

(* a matching utterance was accepted after the first question had been acknowledged,    *)
(* while nothing was awaited: it was bound to the question and nothing was started      *)
C30_Witness ==
  /\ lastOp = Op("addConversationMessage", "accepted")
  /\ ~waitingForAnswer /\ currentStepIndex = 0
  /\ Len(conversation) >= 2 /\ conversation[Len(conversation) - 1].speaker = "patient"
  /\ extractedAnswers # EmptyMap
  /\ \A i \in 1..Len(tasks) : tasks[i].pc # "react"

====
